---- MODULE Spec2Model ----
(***************************************************************************)
(* Model of the MQTT5 RPC server policy of                                 *)
(* sdk/src/azure/core/az_mqtt5_rpc_server_hfsm.c: the HFSM root ->         *)
(* {waiting, faulted}, the subscribe timer, the request parser, the        *)
(* response builder and the public calls init / register /                 *)
(* execution_finish.                                                       *)
(*                                                                         *)
(* Every handler is an operator from the instance (a record of the fields  *)
(* of az_mqtt5_rpc_server._internal the handlers touch) and the event to   *)
(* an outcome: the instance afterwards, the az_result returned, and what   *)
(* the handler did towards its collaborators (events sent, application     *)
(* callbacks, _rpc_stop_timer calls).  The choices of the collaborators    *)
(* (a send that fails, a property append that fails, a property that is    *)
(* missing, the id the broker assigns) travel in the event record.         *)
(***************************************************************************)
EXTENDS Integers, Sequences, FiniteSets, TLC

VARIABLES
  connection,               \* _internal.connection: "NULL" or "conn"
  subscription_topic,       \* _internal.subscription_topic: the caller's buffer, one char per cell
  hfsm_state,               \* _az_hfsm current_state: "waiting" | "faulted" ("none": HFSM never initialised)
  pending_subscription_id,  \* _internal.pending_subscription_id
  property_bag,             \* _internal.property_bag: sequence of appended properties
  timer_armed,              \* _internal.rpc_server_timer is created, started and has not fired
  timeout_posted,           \* the timer fired: its TIMEOUT event is in the pipeline, not yet delivered
  halted,                   \* az_platform_critical_error() was reached
  last_op,                  \* the public call or event handled last, with the collaborators' choices
  ret,                      \* az_result of last_op
  sent,                     \* events last_op sent to the pipeline, in order, each with its result
  callbacks,                \* application callbacks last_op invoked
  timer_stops,              \* one entry per _rpc_stop_timer call of last_op: was the timer armed
  timer_starts,             \* one entry per _rpc_start_timer call of last_op: its result, and how
                            \* many events last_op had sent before the call
  views,                    \* the property views last_op read from the PUB's properties, and
                            \* those of them it freed before it returned
  sub_timeout_seen,         \* a TIMEOUT carrying rpc_server_timer has been delivered
  status_str,               \* _build_response's local char status_str[5] and what was done with it
  topic_check               \* the arguments of az_rpc_server_init, and the result of matching the
                            \* topic it built against itself

\* The instance but its subscription_topic, and what the last operation did.
instance_vars_but_topic ==
  <<connection, hfsm_state, pending_subscription_id,
    property_bag, timer_armed, timeout_posted, halted,
    last_op, ret, sent, callbacks, timer_stops, timer_starts, views,
    sub_timeout_seen>>

\* The instance and what the last operation on it did.
instance_vars == <<subscription_topic, instance_vars_but_topic>>

vars == <<connection, subscription_topic, hfsm_state, pending_subscription_id,
          property_bag, timer_armed, timeout_posted, halted,
          last_op, ret, sent, callbacks, timer_stops, timer_starts, views,
          sub_timeout_seen, status_str, topic_check>>

(***************************************************************************)
(* Bounds of the model.                                                    *)
(***************************************************************************)
\* Largest packet id the broker assigns to a SUBSCRIBE, and largest SUBACK id delivered.
MaxSubId == 1
\* Most properties failed response builds leave behind in the property bag: the
\* property bag lets an append fail only while the bag stays within it.
MaxStale == 1

(***************************************************************************)
(* az_result values.                                                       *)
(***************************************************************************)
AZ_OK == "AZ_OK"
AZ_ERROR_NOT_SUPPORTED == "AZ_ERROR_NOT_SUPPORTED"
AZ_ERROR_HFSM_INVALID_STATE == "AZ_ERROR_HFSM_INVALID_STATE"
AZ_HFSM_RETURN_HANDLE_BY_SUPERSTATE == "AZ_HFSM_RETURN_HANDLE_BY_SUPERSTATE"
\* Failures of the collaborators (pipeline send, timer, property bag, application).
SendFailure == "SendFailure"
TimerFailure == "TimerFailure"
NotFound == "NotFound"
AppendFailure == "AppendFailure"
CallbackFailure == "CallbackFailure"

az_result_failed(r) == r \notin {AZ_OK, AZ_HFSM_RETURN_HANDLE_BY_SUPERSTATE}

(***************************************************************************)
(* Strings are sequences of one-character strings; NUL is the C string     *)
(* terminator and Garbage a byte nobody wrote.                             *)
(***************************************************************************)
NUL == "NUL"
Garbage == "?"

Str_vehicles == <<"v", "e", "h", "i", "c", "l", "e", "s", "/">>
Str_commands == <<"/", "c", "o", "m", "m", "a", "n", "d", "s", "/">>
Str_m1 == <<"m", "1">>
Str_m9 == <<"m", "9">>
Str_c1 == <<"c", "1">>
Str_cmd == <<"c", "m", "d">>
Str_x == <<"x">>

\* az_span_copy / az_span_copy_u8 chain of az_rpc_server_init, written over the
\* caller's buffer from its start; the cells after the NUL keep what they held.
BuildTopic(buffer, model_id, client_id, command_name) ==
  LET written == Str_vehicles \o model_id \o Str_commands \o client_id \o <<"/">>
                   \o (IF Len(command_name) >= 1 THEN command_name ELSE <<"+">>)
                   \o <<NUL>>
  IN  written \o SubSeq(buffer, Len(written) + 1, Len(buffer))

\* The precondition of az_rpc_server_init on the buffer's size.
subscription_min_length(model_id, client_id, command_name) ==
  Len(model_id) + Len(client_id)
    + (IF Len(command_name) > 0 THEN Len(command_name) ELSE 1) + 23

\* What a char* reader sees: the cells before the first NUL.
RECURSIVE CStr(_)
CStr(s) ==
  IF s = <<>> \/ Head(s) = NUL THEN <<>> ELSE <<Head(s)>> \o CStr(Tail(s))

\* The levels of a topic: the pieces between '/' characters.
RECURSIVE Levels(_, _)
Levels(s, cur) ==
  IF s = <<>> THEN <<cur>>
  ELSE IF Head(s) = "/" THEN <<cur>> \o Levels(Tail(s), <<>>)
  ELSE Levels(Tail(s), Append(cur, Head(s)))

HasWildcard(level) == \E i \in 1..Len(level) : level[i] \in {"+", "#"}

\* A filter is valid when a wildcard is a whole level and '#' is the last level;
\* a topic is valid when it has no wildcard.  Neither may be empty.
ValidSub(levels) ==
  \A i \in 1..Len(levels) :
    HasWildcard(levels[i]) =>
      /\ Len(levels[i]) = 1
      /\ (levels[i] = <<"#">> => i = Len(levels))

ValidTopic(levels) == \A i \in 1..Len(levels) : ~HasWildcard(levels[i])

RECURSIVE LevelsMatch(_, _)
LevelsMatch(sub, topic) ==
  IF sub = <<>> THEN topic = <<>>
  ELSE IF Head(sub) = <<"#">> THEN TRUE
  ELSE IF topic = <<>> THEN FALSE
  ELSE IF Head(sub) = <<"+">> \/ Head(sub) = Head(topic)
       THEN LevelsMatch(Tail(sub), Tail(topic))
  ELSE FALSE

\* mosquitto_topic_matches_sub on two C strings, with az_span_topic_matches_sub's
\* treatment of its error code: an invalid filter or topic does not match.
topic_matches_sub(sub, topic) ==
  LET s == CStr(sub)
      t == CStr(topic)
  IN  /\ s # <<>>
      /\ t # <<>>
      /\ (Head(s) = "$") = (Head(t) = "$")
      /\ ValidSub(Levels(s, <<>>))
      /\ ValidTopic(Levels(t, <<>>))
      /\ LevelsMatch(Levels(s, <<>>), Levels(t, <<>>))

(***************************************************************************)
(* The topics of the model.                                                *)
(***************************************************************************)
Topic(model_id, command_name) ==
  Str_vehicles \o model_id \o Str_commands \o Str_c1 \o <<"/">> \o command_name \o <<NUL>>

\* Topics of inbound PUBs and of the requests responses answer: the command,
\* another command of the same client, a command of another model.  An event
\* carries a topic as a span, named here by the topic it points at; SpanBytes
\* are the bytes behind it.
PubTopics == {"Topic_cmd", "Topic_x", "Topic_m9"}
RspTopics == {"Topic_cmd", "Topic_m9"}

SpanBytes(span) ==
  CASE span = "Topic_cmd" -> Topic(Str_m1, Str_cmd)
    [] span = "Topic_x" -> Topic(Str_m1, Str_x)
    [] span = "Topic_m9" -> Topic(Str_m9, Str_cmd)

\* The command names init is given: a command, or none (the filter ends in '+').
CommandNames == {Str_cmd, <<>>}

\* No self-match of a built topic is in progress.
NoTopicCheck == [stage |-> "none"]

\* The filters init builds, each in a buffer of the least size init accepts.
SubscriptionTopics ==
  {BuildTopic([i \in 1..subscription_min_length(Str_m1, Str_c1, command_name)
                 |-> Garbage],
              Str_m1, Str_c1, command_name) : command_name \in CommandNames}

\* topic_matches_sub on the filters and topics of the model, computed once.
MatchTable ==
  [p \in SubscriptionTopics \X PubTopics |-> topic_matches_sub(p[1], SpanBytes(p[2]))]

az_span_topic_matches_sub(sub, topic) == MatchTable[<<sub, topic>>]

(***************************************************************************)
(* Options (az_mqtt5_rpc_server_options_default).                          *)
(***************************************************************************)
AZ_MQTT5_RPC_QOS == 1
options == [subscribe_qos |-> AZ_MQTT5_RPC_QOS, response_qos |-> AZ_MQTT5_RPC_QOS]

(***************************************************************************)
(* Outcome of a handler or helper on the instance m.                       *)
(***************************************************************************)
\* No property view was read.
NoViews == [read |-> {}, freed |-> {}]

Out(m, r) ==
  [me |-> m, ret |-> r, sent |-> <<>>, callbacks |-> <<>>,
   timer_stops |-> <<>>, timer_starts |-> <<>>, views |-> NoViews, halted |-> FALSE]

\* An MQTT5 property as the bag stores it (key is "" for a system property).
Property(type, key, value) == [type |-> type, key |-> key, value |-> value]

\* An event sent with az_event_policy_send_outbound_event /
\* az_event_policy_send_inbound_event, and the result of the send.
Sent(dir, type, data, result) ==
  [dir |-> dir, type |-> type, data |-> data, result |-> result]

(***************************************************************************)
(* Timer helpers.                                                          *)
(***************************************************************************)
\* _rpc_start_timer: create, then start; timer_ret is the first failure of the
\* two calls or AZ_OK.  A failure leaves a timer armed earlier as it was.
\* sent_before is the number of events the caller has sent so far.
_rpc_start_timer(m, timer_ret, sent_before) ==
  [(IF az_result_failed(timer_ret)
    THEN Out(m, timer_ret)
    ELSE Out([m EXCEPT !.timer_armed = TRUE], AZ_OK))
     EXCEPT !.timer_starts = <<[ret |-> timer_ret, sent_before |-> sent_before]>>]

\* _rpc_stop_timer: az_platform_timer_destroy; afterwards no timer is armed.
\* The outcome records whether one was.
_rpc_stop_timer(m) ==
  [Out([m EXCEPT !.timer_armed = FALSE], AZ_OK)
     EXCEPT !.timer_stops = <<m.timer_armed>>]

(***************************************************************************)
(* Property bag: an append fails when the collaborator says so (fails).    *)
(***************************************************************************)
bag_append(bag, prop, fails) ==
  IF fails
  THEN [bag |-> bag, ret |-> AppendFailure]
  ELSE [bag |-> Append(bag, prop), ret |-> AZ_OK]

az_mqtt5_property_bag_empty(bag) == <<>>

\* sprintf(status_str, "%d", status): the decimal digits, '-' first when negative.
RECURSIVE Digits(_)
Digits(n) ==
  LET d == <<"0", "1", "2", "3", "4", "5", "6", "7", "8", "9">>
  IN  IF n < 10 THEN <<d[n + 1]>> ELSE Digits(n \div 10) \o <<d[(n % 10) + 1]>>

\* For a negative status the digits of -status are computed from its last
\* digit (low) and the rest (high), so that INT32_MIN stays within int32.
FormatStatus(status) ==
  IF status >= 0
  THEN Digits(status)
  ELSE LET low == (10 - (status % 10)) % 10
           high == (-(status + low)) \div 10
       IN  <<"-">> \o (IF high = 0 THEN <<>> ELSE Digits(high)) \o Digits(low)

\* char status_str[5].
sizeof_status_str == 5

\* No call of _build_response is in progress: status_str does not exist.
NoStatusStr == [stage |-> "none"]

\* The outcomes of a sprintf whose text does not fit the buffer (undefined
\* behaviour): the bytes past the buffer are written and read back as written;
\* they are written and their owner overwrites them before they are read; or
\* a fortified build traps and the process ends.
OverflowOutcomes == {"overrun", "clobbered", "trap"}

\* sprintf(status_str, "%d", status) into a buffer of size cells: buf is the
\* buffer, past the bytes written after its end, mem what a reader finds from
\* the start of the buffer on.
sprintf_d(size, status, outcome) ==
  LET text == FormatStatus(status) \o <<NUL>>
  IN  IF Len(text) <= size
      THEN [stage |-> "formatted", status |-> status,
            buf |-> text \o [i \in 1..(size - Len(text)) |-> Garbage],
            past |-> <<>>,
            mem |-> text]
      ELSE IF outcome = "trap"
      THEN [stage |-> "trapped", status |-> status,
            buf |-> [i \in 1..size |-> Garbage], past |-> <<>>, mem |-> <<>>]
      ELSE [stage |-> "formatted", status |-> status,
            buf |-> SubSeq(text, 1, size),
            past |-> SubSeq(text, size + 1, Len(text)),
            mem |-> IF outcome = "overrun"
                    THEN text
                    ELSE SubSeq(text, 1, size) \o <<Garbage, NUL>>]

\* az_span_create_from_str(status_str): the bytes up to the first NUL.
az_span_create_from_str(str) == CStr(str)

(***************************************************************************)
(* _build_response: appends up to three properties to the instance's bag,  *)
(* returning at the first append that fails; fail_at in 1..3 makes that    *)
(* append fail, 0 none.  data is the outbound az_mqtt5_pub_data.           *)
(***************************************************************************)
_build_response(m, event_data, fail_at) ==
  LET failure == event_data.status < 200 \/ event_data.status >= 300
      first == IF failure
               THEN Property("USER_PROPERTY", "statusMessage", event_data.error_message)
               ELSE Property("CONTENT_TYPE", "", event_data.content_type)
      payload == IF failure THEN "" ELSE event_data.response
      a1 == bag_append(m.property_bag, first, fail_at = 1)
      a2 == bag_append(a1.bag,
                       Property("USER_PROPERTY", "status", FormatStatus(event_data.status)),
                       fail_at = 2)
      a3 == bag_append(a2.bag,
                       Property("CORRELATION_DATA", "", event_data.correlation_id),
                       fail_at = 3)
  IN  IF az_result_failed(a1.ret)
      THEN [me |-> [m EXCEPT !.property_bag = a1.bag], ret |-> a1.ret, data |-> <<>>]
      ELSE IF az_result_failed(a2.ret)
      THEN [me |-> [m EXCEPT !.property_bag = a2.bag], ret |-> a2.ret, data |-> <<>>]
      ELSE IF az_result_failed(a3.ret)
      THEN [me |-> [m EXCEPT !.property_bag = a3.bag], ret |-> a3.ret, data |-> <<>>]
      ELSE [me |-> [m EXCEPT !.property_bag = a3.bag],
            ret |-> AZ_OK,
            data |-> [topic |-> event_data.response_topic,
                      qos |-> options.response_qos,
                      payload |-> payload,
                      properties |-> a3.bag]]

(***************************************************************************)
(* _send_response_pub: send PUB_REQ, then empty the bag; returns the       *)
(* result of the send.                                                     *)
(***************************************************************************)
\* Mutant: the bag is not emptied after the send.
_send_response_pub_keeps_bag(m, data, send_ret) ==
  [Out(m, send_ret) EXCEPT !.sent = <<Sent("outbound", "PUB_REQ", data, send_ret)>>]

_send_response_pub(m, data, send_ret) ==
  [Out([m EXCEPT !.property_bag = az_mqtt5_property_bag_empty(m.property_bag)], send_ret)
     EXCEPT !.sent = <<Sent("outbound", "PUB_REQ", data, send_ret)>>]

(***************************************************************************)
(* _handle_request: read the three required properties, hand the request   *)
(* to the application.  Returns at the first read that fails and returns   *)
(* the application's failure.                                              *)
(***************************************************************************)
\* Mutant: the results of the three property reads are not looked at.
_handle_request_unchecked(m, data) ==
  [Out(m, data.callback_ret)
     EXCEPT !.callbacks =
              <<[type |-> "EXECUTE_COMMAND_REQ",
                 correlation_id |-> data.correlation_id,
                 response_topic |-> data.response_topic,
                 request_data |-> data.payload,
                 request_topic |-> data.topic,
                 content_type |-> data.content_type]>>,
            !.views = [read |-> {"response_topic", "correlation_data", "content_type"},
                       freed |-> IF az_result_failed(data.callback_ret)
                                 THEN {}
                                 ELSE {"response_topic", "correlation_data",
                                       "content_type"}]]

_handle_request(m, data) ==
  IF ~data.has_response_topic
  THEN Out(m, NotFound)
  ELSE IF ~data.has_correlation_data
  THEN [Out(m, NotFound)
          EXCEPT !.views = [read |-> {"response_topic"}, freed |-> {}]]
  ELSE IF ~data.has_content_type
  THEN [Out(m, NotFound)
          EXCEPT !.views = [read |-> {"response_topic", "correlation_data"},
                            freed |-> {}]]
  ELSE [Out(m, data.callback_ret)
          EXCEPT !.callbacks =
                   <<[type |-> "EXECUTE_COMMAND_REQ",
                      correlation_id |-> data.correlation_id,
                      response_topic |-> data.response_topic,
                      request_data |-> data.payload,
                      request_topic |-> data.topic,
                      content_type |-> data.content_type]>>,
                 \* the three views are freed only when the callback succeeded
                 !.views = [read |-> {"response_topic", "correlation_data",
                                      "content_type"},
                            freed |-> IF az_result_failed(data.callback_ret)
                                      THEN {}
                                      ELSE {"response_topic", "correlation_data",
                                            "content_type"}]]

(***************************************************************************)
(* _az_hfsm_transition_peer: leave source, enter destination.  peer_ret is *)
(* the result the framework gives the caller.                              *)
(***************************************************************************)
_az_hfsm_transition_peer(m, source, destination, peer_ret) ==
  Out([m EXCEPT !.hfsm_state = destination], peer_ret)

(***************************************************************************)
(* State root.                                                             *)
(***************************************************************************)
root(m, event) ==
  CASE event.type = "ERROR" ->
         \* forward to the owner; a failed forward is a critical error
         [Out(m, AZ_OK) EXCEPT
            !.sent = <<Sent("inbound", "ERROR", <<>>, event.forward_ret)>>,
            !.halted = az_result_failed(event.forward_ret)]
    [] event.type = "EXIT" ->
         [Out(m, AZ_OK) EXCEPT !.halted = TRUE]
    [] event.type \in {"ENTRY", "PUBACK_RSP", "CONNECTION_OPEN_REQ", "CONNECT_RSP",
                       "CONNECTION_CLOSE_REQ", "DISCONNECT_RSP"} ->
         Out(m, AZ_OK)
    [] OTHER -> Out(m, AZ_HFSM_RETURN_HANDLE_BY_SUPERSTATE)

(***************************************************************************)
(* State waiting, one operator per case of its switch.                     *)
(***************************************************************************)
\* Mutant: every SUBACK stops the timer, whatever its id.
waiting_SUBACK_RSP_any_id(m, event) ==
  LET stopped == _rpc_stop_timer(m)
  IN  [stopped EXCEPT !.me.pending_subscription_id = 0, !.ret = AZ_OK]

waiting_SUBACK_RSP(m, event) ==
  IF event.id = m.pending_subscription_id
  THEN LET stopped == _rpc_stop_timer(m)
       IN  [stopped EXCEPT !.me.pending_subscription_id = 0, !.ret = AZ_OK]
  ELSE Out(m, AZ_OK)

\* Mutant: the token of the TIMEOUT is not compared with rpc_server_timer.
waiting_TIMEOUT_any_timer(m, event) ==
  LET moved == _az_hfsm_transition_peer(m, "waiting", "faulted", event.peer_ret)
  IN  IF az_result_failed(moved.ret) THEN moved ELSE [moved EXCEPT !.ret = AZ_OK]

\* Mutant: the subscribe timeout is swallowed without a transition.
waiting_TIMEOUT_no_transition(m, event) == Out(m, AZ_OK)

waiting_TIMEOUT(m, event) ==
  IF event.token = "rpc_server_timer"
  THEN LET moved == _az_hfsm_transition_peer(m, "waiting", "faulted", event.peer_ret)
       IN  IF az_result_failed(moved.ret) THEN moved ELSE [moved EXCEPT !.ret = AZ_OK]
  ELSE Out(m, AZ_OK)

\* Mutant: the topic of the PUB is not matched against subscription_topic.
waiting_PUB_RECV_IND_any_topic(m, event) ==
  LET stopped == IF m.pending_subscription_id # 0
                 THEN [_rpc_stop_timer(m) EXCEPT !.me.pending_subscription_id = 0]
                 ELSE Out(m, AZ_OK)
      handled == _handle_request(stopped.me, event)
  IN  [handled EXCEPT !.timer_stops = stopped.timer_stops]

\* Mutant: a matching PUB leaves the subscribe timer and the pending id alone.
waiting_PUB_RECV_IND_keeps_timer(m, event) ==
  IF az_span_topic_matches_sub(m.subscription_topic, event.topic)
  THEN _handle_request(m, event)
  ELSE Out(m, AZ_OK)

waiting_PUB_RECV_IND(m, event) ==
  IF az_span_topic_matches_sub(m.subscription_topic, event.topic)
  THEN LET stopped == IF m.pending_subscription_id # 0
                      THEN [_rpc_stop_timer(m) EXCEPT !.me.pending_subscription_id = 0]
                      ELSE Out(m, AZ_OK)
           handled == _handle_request(stopped.me, event)
       IN  [handled EXCEPT !.timer_stops = stopped.timer_stops]
  ELSE Out(m, AZ_OK)

\* Mutant: the request_topic of the response is not matched against
\* subscription_topic.
waiting_EXECUTE_COMMAND_RSP_any_topic(m, event) ==
  LET built == _build_response(m, event.data, event.fail_at)
  IN  IF az_result_failed(built.ret)
      THEN Out(built.me, built.ret)
      ELSE [_send_response_pub(built.me, built.data, event.send_ret)
              EXCEPT !.ret = AZ_OK]

waiting_EXECUTE_COMMAND_RSP(m, event) ==
  IF az_span_topic_matches_sub(m.subscription_topic, event.data.request_topic)
  THEN LET built == _build_response(m, event.data, event.fail_at)
       IN  IF az_result_failed(built.ret)
           THEN Out(built.me, built.ret)
           ELSE \* the result of _send_response_pub is not looked at
                [_send_response_pub(built.me, built.data, event.send_ret)
                   EXCEPT !.ret = AZ_OK]
  ELSE Out(m, AZ_OK)

waiting(m, event) ==
  CASE event.type = "SUBACK_RSP" -> waiting_SUBACK_RSP(m, event)
    [] event.type = "TIMEOUT" -> waiting_TIMEOUT(m, event)
    [] event.type = "PUB_RECV_IND" -> waiting_PUB_RECV_IND(m, event)
    [] event.type = "EXECUTE_COMMAND_RSP" -> waiting_EXECUTE_COMMAND_RSP(m, event)
    [] event.type \in {"ENTRY", "EXIT", "PUBACK_RSP", "CONNECTION_OPEN_REQ",
                       "CONNECT_RSP"} ->
         Out(m, AZ_OK)
    [] OTHER -> Out(m, AZ_HFSM_RETURN_HANDLE_BY_SUPERSTATE)

(***************************************************************************)
(* State faulted.                                                          *)
(***************************************************************************)
\* Mutant: faulted leaves its events to the superstate, as the other states'
\* default case does.
faulted_by_superstate(m, event) == Out(m, AZ_HFSM_RETURN_HANDLE_BY_SUPERSTATE)

faulted(m, event) == Out(m, AZ_ERROR_HFSM_INVALID_STATE)

\* _get_parent: root is the parent of waiting and of faulted, and has none.
_get_parent(child_state) ==
  IF child_state = "root" THEN "NULL" ELSE "root"

\* Dispatch of an event to the HFSM: the current state first, its parent while
\* the handler answers "handle by superstate".
_az_hfsm_send_event(m, event) ==
  LET leaf == IF m.hfsm_state = "faulted" THEN faulted(m, event) ELSE waiting(m, event)
  IN  IF leaf.ret = AZ_HFSM_RETURN_HANDLE_BY_SUPERSTATE
         /\ _get_parent(m.hfsm_state) = "root"
      THEN root(leaf.me, event)
      ELSE leaf

(***************************************************************************)
(* Inputs.                                                                 *)
(***************************************************************************)
CorrelationIds == {"AA", "BB"}
\* A success and a failure status; both fit status_str, so that the value of
\* the status property is FormatStatus of the status.
StatusValues == {200, 500}
SubIds == 0..MaxSubId
SendResults == {AZ_OK, SendFailure}

\* az_mqtt5_rpc_server_execution_rsp_event_data: answers to requests on the
\* command topic, and one answer to a request of another model.
RspData ==
  {d \in [request_topic : RspTopics, status : StatusValues,
          correlation_id : CorrelationIds, response_topic : {"r/1"},
          error_message : {"boom"}, response : {"{y:2}"},
          content_type : {"application/json"}] :
     /\ (d.request_topic = "Topic_m9") => (d.status = 200)
     /\ (d.correlation_id = "BB") => (d.status = 200 /\ d.request_topic = "Topic_cmd")}

\* az_mqtt5_recv_data with the properties the PUB carries: well-formed PUBs on
\* every topic, and on the command topic a PUB the application fails and PUBs
\* that lack one required property.
PubRecvEvents ==
  {e \in [type : {"PUB_RECV_IND"}, topic : PubTopics, payload : {"{x:1}"},
          has_response_topic : BOOLEAN, has_correlation_data : BOOLEAN,
          has_content_type : BOOLEAN, response_topic : {"r/1"},
          correlation_id : CorrelationIds, content_type : {"application/json"},
          callback_ret : {AZ_OK, CallbackFailure}] :
     LET missing == {p \in {"rt", "cd", "ct"} :
                       \/ (p = "rt" /\ ~e.has_response_topic)
                       \/ (p = "cd" /\ ~e.has_correlation_data)
                       \/ (p = "ct" /\ ~e.has_content_type)}
     IN  /\ Cardinality(missing) <= 1
         /\ (missing # {} \/ e.callback_ret # AZ_OK) =>
              (e.topic = "Topic_cmd" /\ e.correlation_id = "AA")
         /\ (missing # {}) => (e.callback_ret = AZ_OK)}

\* Other events: one waiting swallows (PUBACK_RSP), one root swallows
\* (CONNECTION_CLOSE_REQ), ERROR, and one no state handles (UNSUBACK_RSP).
OtherEventTypes == {"PUBACK_RSP", "CONNECTION_CLOSE_REQ", "ERROR", "UNSUBACK_RSP"}

(***************************************************************************)
(* The instance as the handlers see it, and the effect of an outcome.      *)
(***************************************************************************)
Me ==
  [hfsm_state |-> hfsm_state,
   subscription_topic |-> subscription_topic,
   pending_subscription_id |-> pending_subscription_id,
   property_bag |-> property_bag,
   timer_armed |-> timer_armed]

Apply(o, op) ==
  /\ hfsm_state' = o.me.hfsm_state
  /\ pending_subscription_id' = o.me.pending_subscription_id
  /\ property_bag' = o.me.property_bag
  /\ timer_armed' = o.me.timer_armed
  /\ halted' = o.halted
  /\ ret' = o.ret
  /\ sent' = o.sent
  /\ callbacks' = o.callbacks
  /\ timer_stops' = o.timer_stops
  /\ timer_starts' = o.timer_starts
  /\ views' = o.views
  /\ last_op' = op
  /\ UNCHANGED <<connection, subscription_topic, status_str, topic_check>>

\* The pipeline delivers events to an attached instance until a critical error.
Attached == connection # "NULL" /\ ~halted

(***************************************************************************)
(* Init: the instance after az_rpc_server_init returned AZ_OK.  init does  *)
(* not write pending_subscription_id: it holds what the caller's memory    *)
(* held.                                                                   *)
(***************************************************************************)
Init ==
  /\ connection \in {"NULL", "conn"}
  /\ subscription_topic \in SubscriptionTopics
  /\ hfsm_state = IF connection = "NULL" THEN "none" ELSE "waiting"
  /\ pending_subscription_id \in SubIds
  /\ property_bag = <<>>
  /\ timer_armed = FALSE
  /\ timeout_posted = FALSE
  /\ halted = FALSE
  /\ last_op = [kind |-> "call", type |-> "init"]
  /\ ret = AZ_OK
  /\ sent = <<>>
  /\ callbacks = <<>>
  /\ timer_stops = <<>>
  /\ timer_starts = <<>>
  /\ views = NoViews
  /\ sub_timeout_seen = FALSE
  /\ status_str = NoStatusStr
  /\ topic_check = NoTopicCheck

(***************************************************************************)
(* Public calls.                                                           *)
(***************************************************************************)
\* az_mqtt5_rpc_server_register: the timer is started first and its result
\* dropped; then SUB_REQ is sent and, when the send succeeds, the id the
\* broker layer wrote to out_id is kept.
az_mqtt5_rpc_server_register(m, timer_ret, send_ret, out_id) ==
  LET started == _rpc_start_timer(m, timer_ret, 0)
      sub == Sent("outbound", "SUB_REQ",
                  [topic_filter |-> "subscription_topic",
                   qos |-> options.subscribe_qos],
                  send_ret)
  IN  IF az_result_failed(send_ret)
      THEN [Out(started.me, send_ret)
              EXCEPT !.sent = <<sub>>, !.timer_starts = started.timer_starts]
      ELSE [Out([started.me EXCEPT !.pending_subscription_id = out_id], AZ_OK)
              EXCEPT !.sent = <<sub>>, !.timer_starts = started.timer_starts]

Register ==
  /\ ~halted
  /\ \E timer_ret \in {AZ_OK, TimerFailure}, send_ret \in SendResults, out_id \in 1..MaxSubId :
       LET op == [kind |-> "call", type |-> "register", timer_ret |-> timer_ret,
                  send_ret |-> send_ret, out_id |-> out_id]
       IN  IF connection = "NULL"
           THEN Apply(Out(Me, AZ_ERROR_NOT_SUPPORTED), [kind |-> "call", type |-> "register"])
           ELSE Apply(az_mqtt5_rpc_server_register(Me, timer_ret, send_ret, out_id), op)
  /\ UNCHANGED <<timeout_posted, sub_timeout_seen>>

\* az_mqtt5_rpc_server_execution_finish: post EXECUTE_COMMAND_RSP to the
\* pipeline and return the result of the post.
az_mqtt5_rpc_server_execution_finish(m, data, post_ret) ==
  [Out(m, post_ret)
     EXCEPT !.sent = <<Sent("outbound", "EXECUTE_COMMAND_RSP",
                            [correlation_id |-> data.correlation_id], post_ret)>>]

ExecutionFinish ==
  /\ ~halted
  /\ \E data \in {d \in RspData : d.status = 200 /\ d.request_topic = "Topic_cmd"},
        post_ret \in SendResults :
       IF connection = "NULL"
       THEN Apply(Out(Me, AZ_ERROR_NOT_SUPPORTED),
                  [kind |-> "call", type |-> "execution_finish"])
       ELSE Apply(az_mqtt5_rpc_server_execution_finish(Me, data, post_ret),
                  [kind |-> "call", type |-> "execution_finish"])
  /\ UNCHANGED <<timeout_posted, sub_timeout_seen>>

(***************************************************************************)
(* The subscribe timer fires: its TIMEOUT event enters the pipeline.       *)
(***************************************************************************)
TimerExpire ==
  /\ Attached
  /\ timer_armed
  /\ timeout_posted' = TRUE
  /\ Apply(Out([Me EXCEPT !.timer_armed = FALSE], AZ_OK),
           [kind |-> "timer", type |-> "expire"])
  /\ UNCHANGED sub_timeout_seen

(***************************************************************************)
(* Events the pipeline delivers to the HFSM.                               *)
(***************************************************************************)
Deliver(event) == Apply(_az_hfsm_send_event(Me, event), [event EXCEPT !.kind = "event"])

DeliverSubAck ==
  /\ Attached
  /\ \E id \in SubIds : Deliver([kind |-> "event", type |-> "SUBACK_RSP", id |-> id])
  /\ UNCHANGED <<timeout_posted, sub_timeout_seen>>

\* A TIMEOUT carrying rpc_server_timer is delivered only after that timer fired.
DeliverTimeout ==
  /\ Attached
  /\ \/ /\ timeout_posted
        /\ timeout_posted' = FALSE
        /\ sub_timeout_seen' = TRUE
        /\ \E peer_ret \in {AZ_OK, AZ_ERROR_HFSM_INVALID_STATE} :
             Deliver([kind |-> "event", type |-> "TIMEOUT",
                      token |-> "rpc_server_timer", peer_ret |-> peer_ret])
     \/ /\ Deliver([kind |-> "event", type |-> "TIMEOUT",
                    token |-> "other_timer", peer_ret |-> AZ_OK])
        /\ UNCHANGED <<timeout_posted, sub_timeout_seen>>

DeliverPubRecv ==
  /\ Attached
  /\ \E e \in PubRecvEvents : Deliver([kind |-> "event"] @@ e)
  /\ UNCHANGED <<timeout_posted, sub_timeout_seen>>

\* The pipeline delivers an EXECUTE_COMMAND_RSP that was posted to it, by this
\* instance's application or by another instance's.  fail_at and send_ret are
\* the property bag's and the pipeline's answers; the send is reached only when
\* no append fails.
DeliverExecuteCommandRsp ==
  /\ Attached
  /\ \E data \in RspData, fail_at \in 0..3, send_ret \in SendResults :
       /\ (send_ret = SendFailure) => (fail_at = 0)
       /\ (fail_at # 0) => (Len(property_bag) + fail_at - 1 <= MaxStale)
       /\ Deliver([kind |-> "event", type |-> "EXECUTE_COMMAND_RSP", data |-> data,
                   fail_at |-> fail_at, send_ret |-> send_ret])
  /\ UNCHANGED <<timeout_posted, sub_timeout_seen>>

DeliverOther ==
  /\ Attached
  /\ \E type \in OtherEventTypes, forward_ret \in SendResults :
       /\ (forward_ret = SendFailure) => (type = "ERROR")
       /\ Deliver([kind |-> "event", type |-> type, forward_ret |-> forward_ret])
  /\ UNCHANGED <<timeout_posted, sub_timeout_seen>>

Next ==
  \/ Register
  \/ ExecutionFinish
  \/ TimerExpire
  \/ DeliverSubAck
  \/ DeliverTimeout
  \/ DeliverPubRecv
  \/ DeliverExecuteCommandRsp
  \/ DeliverOther

Spec == Init /\ [][Next]_vars

\* The same program on an instance whose memory the caller zeroed before init.
InitZeroed == Init /\ pending_subscription_id = 0

SpecZeroed == InitZeroed /\ [][Next]_vars

(***************************************************************************)
(* The status formatting of _build_response on its own: status_str is      *)
(* declared, sprintf formats event_data->status into it, and               *)
(* az_span_create_from_str makes the value of the status user property.    *)
(***************************************************************************)
INT32_MAX == 2^30 + (2^30 - 1)
INT32_MIN == (-(2^30)) - 2^30

\* Statuses of the int32 range: around every change of the number of
\* characters, the HTTP-like codes in use, and the ends of the range.
StatusSamples ==
  {0, 1, 9, 10, 99, 100, 199, 200, 204, 299, 300, 404, 500, 599, 999, 1000,
   9999, 10000, 65535, 99999, 100000, INT32_MAX - 1, INT32_MAX,
   -1, -9, -10, -99, -100, -999, -1000, -9999, -10000, INT32_MIN + 1, INT32_MIN}

InitStatus ==
  /\ connection = "conn"
  /\ subscription_topic \in SubscriptionTopics
  /\ hfsm_state = "waiting"
  /\ pending_subscription_id = 0
  /\ property_bag = <<>>
  /\ timer_armed = FALSE
  /\ timeout_posted = FALSE
  /\ halted = FALSE
  /\ last_op = [kind |-> "call", type |-> "init"]
  /\ ret = AZ_OK
  /\ sent = <<>>
  /\ callbacks = <<>>
  /\ timer_stops = <<>>
  /\ timer_starts = <<>>
  /\ views = NoViews
  /\ sub_timeout_seen = FALSE
  /\ \E status \in StatusSamples :
       status_str = [stage |-> "declared", status |-> status]
  /\ topic_check = NoTopicCheck

\* sprintf(status_str, "%d", event_data->status)
Sprintf ==
  /\ status_str.stage = "declared"
  /\ \E outcome \in OverflowOutcomes :
       status_str' = sprintf_d(sizeof_status_str, status_str.status, outcome)
  /\ UNCHANGED <<instance_vars, topic_check>>

\* status_property.value = az_span_create_from_str(status_str)
CreateStatusProperty ==
  /\ status_str.stage = "formatted"
  /\ status_str' = [status_str EXCEPT
                      !.stage = "property",
                      !.mem = <<>>,
                      !.buf = <<>>] @@ [value |-> az_span_create_from_str(status_str.mem)]
  /\ UNCHANGED <<instance_vars, topic_check>>

NextStatus == Sprintf \/ CreateStatusProperty

SpecStatus == InitStatus /\ [][NextStatus]_vars

(***************************************************************************)
(* The topic of az_rpc_server_init on its own: init writes the topic into  *)
(* the caller's buffer, and az_span_topic_matches_sub is given that topic  *)
(* both as the filter and as the topic.                                    *)
(***************************************************************************)
\* Most cells the caller's buffer has beyond the least size init accepts.
MaxSlack == 1

Str_c2 == <<"c", "2">>

ModelIds == {Str_m1, Str_m9, Str_x}
ClientIds == {Str_c1, Str_c2, Str_x}
InitCommandNames == {Str_cmd, Str_x, <<>>}

\* The instance before az_rpc_server_init, which is given no connection, and
\* the caller's buffer, which nobody wrote.
InitTopic ==
  /\ connection = "NULL"
  /\ hfsm_state = "none"
  /\ pending_subscription_id = 0
  /\ property_bag = <<>>
  /\ timer_armed = FALSE
  /\ timeout_posted = FALSE
  /\ halted = FALSE
  /\ last_op = [kind |-> "call", type |-> "none"]
  /\ ret = AZ_OK
  /\ sent = <<>>
  /\ callbacks = <<>>
  /\ timer_stops = <<>>
  /\ timer_starts = <<>>
  /\ views = NoViews
  /\ sub_timeout_seen = FALSE
  /\ status_str = NoStatusStr
  /\ \E model_id \in ModelIds, client_id \in ClientIds,
        command_name \in InitCommandNames, slack \in 0..MaxSlack :
       /\ topic_check = [stage |-> "args", model_id |-> model_id,
                         client_id |-> client_id, command_name |-> command_name]
       /\ subscription_topic =
            [i \in 1..(subscription_min_length(model_id, client_id, command_name) + slack)
               |-> Garbage]

\* az_rpc_server_init: the az_span_copy chain over the caller's buffer.
BuildSubscriptionTopic ==
  /\ topic_check.stage = "args"
  /\ subscription_topic' = BuildTopic(subscription_topic, topic_check.model_id,
                                      topic_check.client_id, topic_check.command_name)
  /\ topic_check' = [topic_check EXCEPT !.stage = "built"]
  /\ UNCHANGED <<instance_vars_but_topic, status_str>>

\* az_span_topic_matches_sub(subscription_topic, subscription_topic)
MatchItself ==
  /\ topic_check.stage = "built"
  /\ topic_check' = [topic_check EXCEPT !.stage = "matched"]
                      @@ [result |-> topic_matches_sub(subscription_topic, subscription_topic)]
  /\ UNCHANGED <<instance_vars, status_str>>

NextTopic == BuildSubscriptionTopic \/ MatchItself

SpecTopic == InitTopic /\ [][NextTopic]_vars

(***************************************************************************)
(* Vocabulary of the properties.                                           *)
(***************************************************************************)
IsEvent(op, type) == op.kind = "event" /\ op.type = type

IsSubscribeTimeout(op) == IsEvent(op, "TIMEOUT") /\ op.token = "rpc_server_timer"

\* The topic of a PUB matches this instance's subscription_topic.
Matches(topic) == az_span_topic_matches_sub(subscription_topic, topic)

\* The PUB carries the three required properties.
WellFormed(pub) ==
  pub.has_response_topic /\ pub.has_correlation_data /\ pub.has_content_type

\* The EXECUTE_COMMAND_REQ the application is to receive for a PUB.
ExecuteCommandReq(pub) ==
  [type |-> "EXECUTE_COMMAND_REQ",
   correlation_id |-> pub.correlation_id,
   response_topic |-> pub.response_topic,
   request_data |-> pub.payload,
   request_topic |-> pub.topic,
   content_type |-> pub.content_type]

\* last_op sent a PUB_REQ and the send ended with result.
PublishedWith(op, events, result) ==
  /\ IsEvent(op, "EXECUTE_COMMAND_RSP")
  /\ events # <<>>
  /\ events[1].type = "PUB_REQ"
  /\ events[1].result = result

(***************************************************************************)
(* C1.  Once the HFSM state is faulted it stays faulted, and every event   *)
(* delivered returns AZ_ERROR_HFSM_INVALID_STATE, sends no event (no       *)
(* SUB_REQ, no PUB_REQ) and invokes no application callback.               *)
(***************************************************************************)
C1_FaultedRejectsEveryEvent ==
  [][hfsm_state = "faulted" =>
       /\ hfsm_state' = "faulted"
       /\ (last_op'.kind = "event" =>
             /\ ret' = AZ_ERROR_HFSM_INVALID_STATE
             /\ sent' = <<>>
             /\ callbacks' = <<>>)]_vars

\* A well-formed matching PUB was delivered to a faulted instance.
C1_Witness ==
  /\ hfsm_state = "faulted"
  /\ IsEvent(last_op, "PUB_RECV_IND")
  /\ Matches(last_op.topic)
  /\ WellFormed(last_op)
  /\ ret = AZ_ERROR_HFSM_INVALID_STATE

(***************************************************************************)
(* C2.  While no TIMEOUT carrying this instance's subscribe timer has been *)
(* delivered, the state is not faulted, whatever else was delivered.       *)
(***************************************************************************)
C2_NeverFaultedWithoutSubscribeTimeout ==
  ~sub_timeout_seen => hfsm_state # "faulted"

\* A TIMEOUT of another timer was delivered while the subscribe timer was armed.
C2_Witness ==
  /\ ~sub_timeout_seen
  /\ IsEvent(last_op, "TIMEOUT")
  /\ last_op.token = "other_timer"
  /\ timer_armed
  /\ hfsm_state = "waiting"

(***************************************************************************)
(* C3.  A TIMEOUT carrying the subscribe timer, delivered in waiting,      *)
(* moves the instance to faulted, and every event delivered after it       *)
(* returns AZ_ERROR_HFSM_INVALID_STATE.                                    *)
(***************************************************************************)
C3_SubscribeTimeoutFaults ==
  [][/\ (hfsm_state = "waiting" /\ IsSubscribeTimeout(last_op')) =>
          hfsm_state' = "faulted"
     /\ (sub_timeout_seen /\ last_op'.kind = "event") =>
          ret' = AZ_ERROR_HFSM_INVALID_STATE]_vars

\* The subscribe timeout was delivered with the SUBACK still outstanding.
C3_Witness ==
  /\ IsSubscribeTimeout(last_op)
  /\ pending_subscription_id # 0
  /\ hfsm_state = "faulted"

(***************************************************************************)
(* C4.  pending_subscription_id = 0 if and only if no subscribe timer is   *)
(* armed, in every state between handlers and public calls.                *)
(***************************************************************************)
C4_PendingIdIffTimerArmed ==
  (pending_subscription_id = 0) <=> ~timer_armed

(***************************************************************************)
(* C5.  When an append fails while a matching EXECUTE_COMMAND_RSP is       *)
(* handled, the failure is returned and the property bag is emptied, so a  *)
(* PUB_REQ carries only the properties appended for its own response.      *)
(***************************************************************************)
C5_BagEmptiedAfterFailedBuild ==
  /\ (IsEvent(last_op, "EXECUTE_COMMAND_RSP") /\ last_op.fail_at # 0
        /\ hfsm_state = "waiting" /\ Matches(last_op.data.request_topic)) =>
       (ret = AppendFailure /\ property_bag = <<>>)
  /\ \A result \in SendResults :
       PublishedWith(last_op, sent, result) =>
         sent[1].data.properties =
           _build_response([Me EXCEPT !.property_bag = <<>>], last_op.data, 0).data.properties

(***************************************************************************)
(* C6.  After an EXECUTE_COMMAND_RSP that was built and published, the     *)
(* property bag holds no property.                                         *)
(***************************************************************************)
C6_BagEmptyAfterPublish ==
  PublishedWith(last_op, sent, AZ_OK) => property_bag = <<>>

\* A response was published from a bag that held a property of an earlier one.
C6_Witness ==
  /\ PublishedWith(last_op, sent, AZ_OK)
  /\ Len(sent[1].data.properties) > 3
  /\ property_bag = <<>>

(***************************************************************************)
(* C7.  When the send of the PUB_REQ fails, handling the                   *)
(* EXECUTE_COMMAND_RSP returns that failure, and the HFSM state,           *)
(* pending_subscription_id and the timer are unchanged.                    *)
(***************************************************************************)
C7_SendFailureReturned ==
  [][PublishedWith(last_op', sent', SendFailure) =>
       /\ ret' = SendFailure
       /\ UNCHANGED <<hfsm_state, pending_subscription_id, timer_armed>>]_vars

(***************************************************************************)
(* C8.  A PUB_RECV_IND whose topic does not match subscription_topic       *)
(* invokes no application callback, returns no error and leaves the timer  *)
(* and pending_subscription_id unchanged.                                  *)
(***************************************************************************)
C8_NonMatchingPubIgnored ==
  [][(IsEvent(last_op', "PUB_RECV_IND") /\ ~Matches(last_op'.topic)) =>
       /\ callbacks' = <<>>
       /\ ~az_result_failed(ret')
       /\ UNCHANGED <<timer_armed, pending_subscription_id>>]_vars

\* C8 as amended: no error is returned when the PUB is delivered in waiting; a
\* faulted instance rejects it with AZ_ERROR_HFSM_INVALID_STATE.
C8_NonMatchingPubIgnoredInWaiting ==
  [][(IsEvent(last_op', "PUB_RECV_IND") /\ ~Matches(last_op'.topic)) =>
       /\ callbacks' = <<>>
       /\ (hfsm_state = "waiting" => ret' = AZ_OK)
       /\ (hfsm_state = "faulted" => ret' = AZ_ERROR_HFSM_INVALID_STATE)
       /\ UNCHANGED <<timer_armed, pending_subscription_id>>]_vars

\* A PUB on another topic was delivered in waiting with the SUBACK outstanding.
C8_Witness ==
  /\ IsEvent(last_op, "PUB_RECV_IND")
  /\ ~Matches(last_op.topic)
  /\ WellFormed(last_op)
  /\ hfsm_state = "waiting"
  /\ timer_armed
  /\ pending_subscription_id # 0
  /\ ret = AZ_OK

(***************************************************************************)
(* C9.  A well-formed matching PUB_RECV_IND delivered in waiting while     *)
(* pending_subscription_id # 0 stops the subscribe timer, clears the id    *)
(* and hands the request to the application as EXECUTE_COMMAND_REQ; the    *)
(* state stays waiting.                                                    *)
(***************************************************************************)
C9_PubBeforeSubAck ==
  [][(/\ hfsm_state = "waiting"
      /\ pending_subscription_id # 0
      /\ IsEvent(last_op', "PUB_RECV_IND")
      /\ Matches(last_op'.topic)
      /\ WellFormed(last_op')) =>
       /\ timer_stops' # <<>>
       /\ timer_armed' = FALSE
       /\ pending_subscription_id' = 0
       /\ callbacks' = <<ExecuteCommandReq(last_op')>>
       /\ hfsm_state' = "waiting"]_vars

\* The PUB stopped an armed timer and reached the application.
C9_Witness ==
  /\ IsEvent(last_op, "PUB_RECV_IND")
  /\ WellFormed(last_op)
  /\ timer_stops = <<TRUE>>
  /\ pending_subscription_id = 0
  /\ callbacks = <<ExecuteCommandReq(last_op)>>
  /\ hfsm_state = "waiting"

(***************************************************************************)
(* C10.  In waiting, a SUBACK_RSP whose id differs from                    *)
(* pending_subscription_id changes neither the state, the id nor whether   *)
(* the timer is armed; one whose id equals it disarms the timer and clears *)
(* the id.                                                                 *)
(***************************************************************************)
C10_SubAckOnlyForPendingId ==
  [][(hfsm_state = "waiting" /\ IsEvent(last_op', "SUBACK_RSP")) =>
       IF last_op'.id = pending_subscription_id
       THEN /\ timer_armed' = FALSE
            /\ pending_subscription_id' = 0
            /\ hfsm_state' = "waiting"
       ELSE UNCHANGED <<hfsm_state, pending_subscription_id, timer_armed>>]_vars

\* A SUBACK for another id was delivered while this instance's was outstanding.
C10_Witness ==
  /\ IsEvent(last_op, "SUBACK_RSP")
  /\ last_op.id # pending_subscription_id
  /\ pending_subscription_id # 0
  /\ timer_armed
  /\ hfsm_state = "waiting"

(***************************************************************************)
(* C11.  An EXECUTE_COMMAND_RSP whose request_topic does not match         *)
(* subscription_topic sends no PUB_REQ (no event at all) and leaves the    *)
(* property bag and the HFSM state unchanged.                              *)
(***************************************************************************)
C11_NonMatchingRspIgnored ==
  [][(IsEvent(last_op', "EXECUTE_COMMAND_RSP")
        /\ ~Matches(last_op'.data.request_topic)) =>
       /\ sent' = <<>>
       /\ UNCHANGED <<property_bag, hfsm_state>>]_vars

\* A response to another instance's request was delivered in waiting while the
\* bag held a property.
C11_Witness ==
  /\ IsEvent(last_op, "EXECUTE_COMMAND_RSP")
  /\ ~Matches(last_op.data.request_topic)
  /\ hfsm_state = "waiting"
  /\ property_bag # <<>>
  /\ sent = <<>>
  /\ ret = AZ_OK


(***************************************************************************)
(* C12.  The PUB_REQ sent for a matching EXECUTE_COMMAND_RSP has topic =   *)
(* response_topic, qos = options.response_qos and exactly three            *)
(* properties: CorrelationData = correlation_id and user property status   *)
(* always; for 200 <= status < 300 ContentType = content_type, with        *)
(* payload = response; otherwise user property statusMessage =             *)
(* error_message, with an empty payload and no ContentType.                *)
(***************************************************************************)
\* The properties the response to data is to carry, and no other.
ResponseProperties(data) ==
  {Property("CORRELATION_DATA", "", data.correlation_id),
   Property("USER_PROPERTY", "status", FormatStatus(data.status)),
   IF 200 <= data.status /\ data.status < 300
   THEN Property("CONTENT_TYPE", "", data.content_type)
   ELSE Property("USER_PROPERTY", "statusMessage", data.error_message)}

C12_ResponsePubContents ==
  \A result \in SendResults :
    PublishedWith(last_op, sent, result) =>
      LET data == last_op.data
          pub == sent[1].data
      IN  /\ pub.topic = data.response_topic
          /\ pub.qos = options.response_qos
          /\ pub.payload = IF 200 <= data.status /\ data.status < 300
                           THEN data.response ELSE ""
          /\ Len(pub.properties) = 3
          /\ {pub.properties[i] : i \in 1..Len(pub.properties)} =
               ResponseProperties(data)


(***************************************************************************)
(* C13.  For every int32 status the value of the status user property is   *)
(* the base-10 rendering of the status: digits only, no padding or leading *)
(* zero, a '-' exactly when the status is negative; and formatting it      *)
(* writes no byte outside status_str (and the build is not stopped).       *)
(***************************************************************************)
DecimalDigits == <<"0", "1", "2", "3", "4", "5", "6", "7", "8", "9">>

\* The number the digit string ds denotes, negated (no int32 is left on the way).
RECURSIVE MinusValueOf(_)
MinusValueOf(ds) ==
  IF ds = <<>> THEN 0
  ELSE LET digit == CHOOSE v \in 0..9 : DecimalDigits[v + 1] = ds[Len(ds)]
       IN  MinusValueOf(SubSeq(ds, 1, Len(ds) - 1)) * 10 - digit

\* str is the base-10 rendering of n.
IsDecimalOf(str, n) ==
  LET negative == str # <<>> /\ str[1] = "-"
      ds == IF negative THEN Tail(str) ELSE str
  IN  /\ ds # <<>>
      /\ \A i \in 1..Len(ds) : \E v \in 1..10 : DecimalDigits[v] = ds[i]
      /\ (Len(ds) > 1) => (ds[1] # "0")
      /\ negative <=> (n < 0)
      /\ n = IF negative THEN MinusValueOf(ds) ELSE -MinusValueOf(ds)

C13_StatusRenderedWithinBuffer ==
  /\ status_str.stage # "trapped"
  /\ (status_str.stage \in {"formatted", "property"}) => (status_str.past = <<>>)
  /\ (status_str.stage = "property") =>
       IsDecimalOf(status_str.value, status_str.status)


(***************************************************************************)
(* C14.  A matching PUB_RECV_IND that lacks a required property (response  *)
(* topic, correlation data or content type), delivered in waiting, invokes *)
(* no application callback and leaves the state waiting; and every         *)
(* well-formed matching PUB_RECV_IND delivered in waiting, after such a    *)
(* PUB as at any other time, is handed to the application.                 *)
(***************************************************************************)
C14_MalformedPubDropped ==
  [][(/\ hfsm_state = "waiting"
      /\ IsEvent(last_op', "PUB_RECV_IND")
      /\ Matches(last_op'.topic)) =>
       IF WellFormed(last_op')
       THEN callbacks' = <<ExecuteCommandReq(last_op')>>
       ELSE callbacks' = <<>> /\ hfsm_state' = "waiting"]_vars

\* A matching PUB without one of its properties was dropped in waiting.
C14_Witness ==
  /\ IsEvent(last_op, "PUB_RECV_IND")
  /\ Matches(last_op.topic)
  /\ ~WellFormed(last_op)
  /\ callbacks = <<>>
  /\ ret = NotFound
  /\ hfsm_state = "waiting"


(***************************************************************************)
(* C15.  In register on an attached instance the subscribe timer is armed  *)
(* only after SUB_REQ was sent, and when register returns AZ_OK the        *)
(* SUB_REQ has been sent and the timer is armed.                           *)
(***************************************************************************)
IsRegister(op) == op.kind = "call" /\ op.type = "register"

C15_SubReqBeforeTimerArmed ==
  (IsRegister(last_op) /\ connection # "NULL") =>
    /\ \A i \in 1..Len(timer_starts) :
         (timer_starts[i].ret = AZ_OK) => (timer_starts[i].sent_before >= 1)
    /\ (ret = AZ_OK) =>
         /\ \E i \in 1..Len(sent) : sent[i].type = "SUB_REQ"
         /\ \E i \in 1..Len(timer_starts) : timer_starts[i].ret = AZ_OK
         /\ timer_armed


(***************************************************************************)
(* C16.  When creating or starting the subscribe timer fails in register,  *)
(* register returns that failure to its caller.                            *)
(***************************************************************************)
C16_TimerFailureReturned ==
  (IsRegister(last_op) /\ connection # "NULL"
     /\ az_result_failed(last_op.timer_ret)) =>
    ret = last_op.timer_ret


(***************************************************************************)
(* C17.  For non-empty model_id and client_id and any command_name, empty  *)
(* included, the buffer init wrote reads as the C string                   *)
(* "vehicles/<model_id>/commands/<client_id>/<command_name or +>", ended   *)
(* by a NUL inside the buffer, and az_span_topic_matches_sub given this    *)
(* topic as filter and as topic answers true.                              *)
(***************************************************************************)
C17_BuiltTopicMatchesItself ==
  /\ (topic_check.stage \in {"built", "matched"}) =>
       LET text == Str_vehicles \o topic_check.model_id \o Str_commands
                     \o topic_check.client_id \o <<"/">>
                     \o (IF topic_check.command_name = <<>>
                         THEN <<"+">> ELSE topic_check.command_name)
       IN  /\ Len(text) < Len(subscription_topic)
           /\ SubSeq(subscription_topic, 1, Len(text) + 1) = text \o <<NUL>>
  /\ (topic_check.stage = "matched") => (topic_check.result = TRUE)


(***************************************************************************)
(* C18.  When the handling of a matching PUB_RECV_IND returns, on whatever *)
(* path (a later required property missing, the application callback       *)
(* failing, success), every property view it read has been freed.          *)
(***************************************************************************)
C18_ViewsReleasedOnEveryPath ==
  (IsEvent(last_op, "PUB_RECV_IND") /\ Matches(last_op.topic)) =>
    views.read \subseteq views.freed


(***************************************************************************)
(* C19.  A TIMEOUT carrying the subscribe timer that is delivered after a  *)
(* SUBACK_RSP or a matching PUB_RECV_IND stopped the timer and cleared     *)
(* pending_subscription_id does not move the instance to faulted: faulted  *)
(* is entered only while pending_subscription_id # 0.                      *)
(***************************************************************************)
C19_NoFaultAfterDisarm ==
  [][(hfsm_state # "faulted" /\ hfsm_state' = "faulted") =>
       pending_subscription_id # 0]_vars


(***************************************************************************)
(* C20.  Every _rpc_stop_timer call finds the subscribe timer armed: the   *)
(* timer is not destroyed before register armed it nor twice for one       *)
(* arming, and a SUBACK_RSP with id 0 delivered while                      *)
(* pending_subscription_id is 0 does not stop it.                          *)
(***************************************************************************)
C20_TimerStoppedOnlyWhileArmed ==
  /\ \A i \in 1..Len(timer_stops) : timer_stops[i] = TRUE
  /\ (IsEvent(last_op, "SUBACK_RSP") /\ last_op.id = 0) => timer_stops = <<>>


====
